---- MODULE Spec2Model ----
(***************************************************************************)
(* Warbler: users, messages, follows and likes behind session-based        *)
(* Flask routes (app.py).  The persisted tables are the state; every route *)
(* handler of app.py is one atomic action.  models.py and forms.py are not *)
(* part of the available sources: the store rules they define (unique      *)
(* columns, cascades, password hashing, form validators) are modelled from *)
(* the written specification and are marked as such where they appear.     *)
(***************************************************************************)
EXTENDS Integers, Sequences, FiniteSets, TLC

\* ---------------------------------------------------------------- bounds
MaxUsers == 2          \* user ids the store ever hands out
MaxMessages == 1       \* message ids the store ever hands out
MaxClock == 0          \* wall-clock readings are 0..MaxClock
Overflow == 2          \* the large tables hold up to TimelineLimit + Overflow rows

\* ------------------------------------------------------------- constants
TimelineLimit == 100   \* .limit(100)
MaxTextLen == 140      \* Message.text: at most 140 characters
None == 0              \* Python None where a user or message id is expected

Null == "<null>"                       \* a NULL text column
DEFAULT_IMAGE == "/static/images/default-pic.png"
DEFAULT_HEADER == "/static/images/warbler-hero.jpg"

UserIds == 1..MaxUsers
MessageIds == 1..MaxMessages
Timestamps == 0..MaxClock

VARIABLES
  users,        \* table users:    id -> row
  messages,     \* table messages: id -> row
  follows,      \* table follows:  set of <<user_following_id, user_being_followed_id>>
  likes,        \* table likes:    set of <<user_id, message_id>>
  user_seq,     \* last id handed out by users.id
  message_seq,  \* last id handed out by messages.id
  session,      \* per browser session: the id under CURR_USER_KEY, None if absent
  last,         \* the last request and the response it got
  pending       \* per browser session: its request that is under way, if any

db == <<users, messages, follows, likes, user_seq, message_seq>>
vars == <<users, messages, follows, likes, user_seq, message_seq, session, last, pending>>

Sessions == DOMAIN session

\* ------------------------------------------------ store rules (models.py)
\* bcrypt: a one-way image of the plaintext, never the plaintext itself
Hash(password) == <<"$2b$", password>>

check_password_hash(hashed, password) == hashed = Hash(password)

\* users.username and users.email are UNIQUE
UsersUnique(tbl) ==
  \A a, b \in DOMAIN tbl :
    a # b => /\ tbl[a].username # tbl[b].username
             /\ tbl[a].email # tbl[b].email

\* User.signup: the row built from the signup arguments
User_signup(username, email, password, image_url) ==
  [ username |-> username, email |-> email, password |-> Hash(password),
    image_url |-> image_url, header_image_url |-> DEFAULT_HEADER,
    bio |-> Null, location |-> Null ]

\* User.authenticate: the id of the user of that name if the password
\* matches its hash, otherwise None (unknown name and wrong password alike)
User_authenticate(username, password) ==
  LET c == { u \in DOMAIN users : users[u].username = username } IN
  IF c = {} THEN None
  ELSE LET u == CHOOSE u \in c : TRUE IN
       IF check_password_hash(users[u].password, password) THEN u ELSE None

\* ON DELETE CASCADE from messages to likes
LikesAfterMessages(lk, gone) == { e \in lk : e[2] \notin gone }

\* ON DELETE CASCADE from users to follows and likes
FollowsAfterUser(fl, uid) == { e \in fl : e[1] # uid /\ e[2] # uid }

LikesAfterUser(lk, uid) == { e \in lk : e[1] # uid }

\* User.following, User.followers: the two ends of the follows table
following(fl, a) == { e[2] : e \in { x \in fl : x[1] = a } }

followers(fl, b) == { e[1] : e \in { x \in fl : x[2] = b } }

\* User.is_following, User.is_followed_by
is_following(fl, a, b) == b \in following(fl, a)

is_followed_by(fl, b, a) == a \in followers(fl, b)

\* User.liked_messages: the messages the likes table pairs with user u
liked_messages(lk, u) == { e[2] : e \in { x \in lk : x[1] = u } }

\* form validators (forms.py): MessageForm.text is required, at most 140 long
MessageFormValid(text) == text >= 1 /\ text <= MaxTextLen

\* ----------------------------------------------------- request plumbing
\* add_user_to_g: g.user is the row the session's id names, None if the key
\* is absent or names no row
g_user(s) ==
  IF session[s] # None /\ session[s] \in DOMAIN users THEN session[s] ELSE None

login_required_off(s) == TRUE

login_required_session(s) == session[s] # None

\* login_required lets the request through iff g.user is set
login_required(s) == g_user(s) # None

do_login(sess, s, uid) == [sess EXCEPT ![s] = uid]

do_logout_keeps(sess, s) == sess

do_logout(sess, s) == [sess EXCEPT ![s] = None]

Response(op, arg, resp, wrote, feed) ==
  [ op |-> op, arg |-> arg, resp |-> resp, wrote |-> wrote, feed |-> feed ]

\* no request under way
Idle ==
  [ pc |-> "idle", op |-> "none", arg |-> None, user |-> None,
    held |-> FALSE, overlap |-> FALSE, resp |-> "none" ]

\* a request that ends without touching the store or the session
Reply(op, arg, resp) ==
  /\ last' = Response(op, arg, resp, FALSE, <<>>)
  /\ UNCHANGED <<db, session>>

\* flash("Access unauthorized."); redirect("/")
Unauthorized(op, arg) == Reply(op, arg, "Unauthorized")

\* an unhandled exception before any commit: HTTP 500, the transaction is
\* rolled back when the request ends
ServerError(op, arg) == Reply(op, arg, "ServerError")

Without(tbl, gone) == [x \in DOMAIN tbl \ gone |-> tbl[x]]

\* --------------------------------------------- signup / login / logout
signup_conflict_uncaught(s) == ServerError("signup", None)

\* except IntegrityError: flash("Username already taken"), show the form again
signup_conflict(s) == Reply("signup", None, "ConstraintViolation")

\* /signup.  submitted: form.validate_on_submit()
signup(s, submitted, f) ==
  LET u == g_user(s)
      id == user_seq + 1
      row == User_signup(f.username, f.email, f.password,
                         IF f.image_url # "" THEN f.image_url ELSE DEFAULT_IMAGE)
      tbl == users @@ (id :> row)
  IN
  IF ~submitted THEN Reply("signup", None, "form")
  ELSE IF ~UsersUnique(tbl)
  THEN signup_conflict(s)
  ELSE /\ user_seq < MaxUsers
       /\ users' = tbl
       /\ user_seq' = id
       /\ session' = do_login(session, s, id)
       /\ last' = Response("signup", id, "ok", TRUE, <<>>)
       /\ UNCHANGED <<messages, follows, likes, message_seq>>

login_unchecked(s, submitted, username, password) ==
  LET c == { u \in DOMAIN users : users[u].username = username } IN
  IF ~submitted \/ c = {} THEN Reply("login", None, "form")
  ELSE /\ session' = do_login(session, s, CHOOSE u \in c : TRUE)
       /\ last' = Response("login", CHOOSE u \in c : TRUE, "ok", FALSE, <<>>)
       /\ UNCHANGED db

\* /login
login(s, submitted, username, password) ==
  LET u == g_user(s)
      user == User_authenticate(username, password)
  IN
  IF ~submitted THEN Reply("login", None, "form")
  ELSE IF user # None
  THEN /\ session' = do_login(session, s, user)
       /\ last' = Response("login", user, "ok", FALSE, <<>>)
       /\ UNCHANGED db
  ELSE \* flash("Invalid credentials.")
       Reply("login", None, "AuthFailure")

\* /logout.  csrf: g.csrf_form.validate_on_submit()
logout(s, csrf) ==
  LET u == g_user(s) IN
  IF ~csrf THEN Reply("logout", None, "skip")
  ELSE /\ session' = do_logout(session, s)
       /\ last' = Response("logout", None, "ok", FALSE, <<>>)
       /\ UNCHANGED db

\* ------------------------------------------------------ profile, delete
\* the row after lines 232-237 have assigned the form's fields
profile_assign(row, f) ==
  [ row EXCEPT !.username = f.username,
               !.email = f.email,
               !.image_url = f.image_url,
               !.header_image_url = f.header_image_url,
               !.bio = IF f.bio # "" THEN f.bio ELSE Null,
               !.location = IF f.location # "" THEN f.location ELSE Null ]

profile_confirm_any(username, password) ==
  LET c == { u \in DOMAIN users : users[u].username = username } IN
  IF c = {} THEN None ELSE CHOOSE u \in c : TRUE

\* the password check of /users/profile
profile_confirm(username, password) == User_authenticate(username, password)

\* /users/profile
profile(s, submitted, f) ==
  LET u == g_user(s) IN
  IF ~login_required(s) THEN Unauthorized("profile", None)
  ELSE IF u = None THEN ServerError("profile", None)
  ELSE IF ~submitted THEN Reply("profile", None, "form")
  ELSE
    LET user == profile_confirm(users[u].username, f.password) IN
    IF user = None
    THEN \* flash("Incorrect password")
         Reply("profile", None, "AuthFailure")
    ELSE
      LET tbl == [users EXCEPT ![user] = profile_assign(@, f)] IN
      IF ~UsersUnique(tbl)
      THEN \* IntegrityError raised by commit, caught nowhere
           ServerError("profile", user)
      ELSE /\ users' = tbl
           /\ last' = Response("profile", user, "ok", tbl # users, <<>>)
           /\ UNCHANGED <<messages, follows, likes, user_seq, message_seq, session>>

owned_messages_none(uid) == {}

\* Message.query.filter(Message.user_id == g.user.id)
owned_messages(uid) == { m \in DOMAIN messages : messages[m].user_id = uid }

\* /users/delete
delete_user(s, csrf) ==
  LET u == g_user(s) IN
  IF ~login_required(s) THEN Unauthorized("delete_user", None)
  ELSE IF u = None THEN ServerError("delete_user", None)
  ELSE IF ~csrf THEN Reply("delete_user", None, "skip")
  ELSE
    LET gone == owned_messages(u) IN
    /\ session' = do_logout(session, s)
    /\ messages' = Without(messages, gone)
    /\ likes' = LikesAfterUser(LikesAfterMessages(likes, gone), u)
    /\ follows' = FollowsAfterUser(follows, u)
    /\ users' = Without(users, {u})
    /\ last' = Response("delete_user", u, "ok", TRUE, <<>>)
    /\ UNCHANGED <<user_seq, message_seq>>

\* the statements of delete_user that talk to the database: the bulk delete
\* of line 257, the delete of line 258 and the commit of line 259
Faults == {"messages", "user", "commit"}

\* /users/delete when the statement named by fault raises.  do_logout has
\* run by then; the transaction is rolled back when the request ends.  With
\* propagate (PROPAGATE_EXCEPTIONS, on in debug and testing) the exception
\* leaves the application and no response is built; without it the 500
\* response is built as any response is and carries the session as it is now
delete_user_fault(s, csrf, fault, propagate) ==
  LET u == g_user(s) IN
  IF ~login_required(s) THEN Unauthorized("delete_user", None)
  ELSE IF ~csrf THEN Reply("delete_user", None, "skip")
  ELSE /\ fault \in Faults
       /\ session' = IF propagate THEN session ELSE do_logout(session, s)
       /\ last' = Response("delete_user", u, "ServerError", FALSE, <<>>)
       /\ UNCHANGED db

\* ------------------------------------------------------- follow / unfollow
relationship_toggle(tbl, edge) ==
  IF edge \in tbl THEN tbl \ {edge} ELSE tbl \union {edge}

\* collection.append(x); commit: the unit of work inserts a row only for a
\* member the loaded collection did not already hold
relationship_append(tbl, edge) == tbl \union {edge}

\* collection.remove(x) is list.remove: it raises ValueError if x is absent
relationship_holds(tbl, edge) == edge \in tbl

\* /users/follow/<follow_id>
add_follow(s, csrf, follow_id) ==
  LET u == g_user(s) IN
  IF ~login_required(s) THEN Unauthorized("add_follow", follow_id)
  ELSE IF u = None THEN ServerError("add_follow", follow_id)
  ELSE IF ~csrf THEN Reply("add_follow", follow_id, "skip")
  ELSE IF follow_id \notin DOMAIN users THEN Reply("add_follow", follow_id, "NotFound")
  ELSE /\ follows' = relationship_append(follows, <<u, follow_id>>)
       /\ last' = Response("add_follow", follow_id, "ok", follows' # follows, <<>>)
       /\ UNCHANGED <<users, messages, likes, user_seq, message_seq, session>>

stop_following_keeps(s, csrf, follow_id) ==
  IF ~login_required(s) THEN Unauthorized("stop_following", follow_id)
  ELSE Reply("stop_following", follow_id, "ok")

\* /users/stop-following/<follow_id>.  User.query.get gives None for an
\* unknown id, and None is never a member of the collection
stop_following(s, csrf, follow_id) ==
  LET u == g_user(s) IN
  IF ~login_required(s) THEN Unauthorized("stop_following", follow_id)
  ELSE IF u = None THEN ServerError("stop_following", follow_id)
  ELSE IF ~csrf THEN Reply("stop_following", follow_id, "skip")
  ELSE IF ~relationship_holds(follows, <<u, follow_id>>)
  THEN \* ValueError raised by remove, caught nowhere
       ServerError("stop_following", follow_id)
  ELSE /\ follows' = follows \ {<<u, follow_id>>}
       /\ last' = Response("stop_following", follow_id, "ok", TRUE, <<>>)
       /\ UNCHANGED <<users, messages, likes, user_seq, message_seq, session>>

\* ---------------------------------------------------------------- messages
messages_add_unvalidated(s, submitted, text, t) ==
  LET u == g_user(s)
      id == message_seq + 1
  IN
  IF ~login_required(s) THEN Unauthorized("messages_add", None)
  ELSE IF ~submitted THEN Reply("messages_add", None, "form")
  ELSE /\ message_seq < MaxMessages
       /\ messages' = messages @@ (id :> [text |-> text, timestamp |-> t, user_id |-> u])
       /\ message_seq' = id
       /\ last' = Response("messages_add", id, "ok", TRUE, <<>>)
       /\ UNCHANGED <<users, follows, likes, user_seq, session>>

\* /messages/new.  text is the length of the submitted text; t is the
\* wall-clock reading that becomes the row's timestamp
messages_add(s, submitted, text, t) ==
  LET u == g_user(s)
      id == message_seq + 1
  IN
  IF ~login_required(s) THEN Unauthorized("messages_add", None)
  ELSE IF u = None THEN ServerError("messages_add", None)
  ELSE IF ~(submitted /\ MessageFormValid(text)) THEN Reply("messages_add", None, "form")
  ELSE /\ message_seq < MaxMessages
       /\ messages' = messages @@ (id :> [text |-> text, timestamp |-> t, user_id |-> u])
       /\ message_seq' = id
       /\ last' = Response("messages_add", id, "ok", TRUE, <<>>)
       /\ UNCHANGED <<users, follows, likes, user_seq, session>>

\* /messages/<message_id>
messages_show(message_id) ==
  IF message_id \notin DOMAIN messages
  THEN Reply("messages_show", message_id, "NotFound")
  ELSE Reply("messages_show", message_id, "page")

messages_destroy_leaves_likes(s, csrf, message_id) ==
  IF ~login_required(s) THEN Unauthorized("messages_destroy", message_id)
  ELSE IF ~csrf THEN Reply("messages_destroy", message_id, "skip")
  ELSE IF message_id \notin DOMAIN messages THEN Reply("messages_destroy", message_id, "NotFound")
  ELSE /\ messages' = Without(messages, {message_id})
       /\ last' = Response("messages_destroy", message_id, "ok", TRUE, <<>>)
       /\ UNCHANGED <<users, follows, likes, user_seq, message_seq, session>>

\* /messages/<message_id>/delete.  g.user is first read after the commit
messages_destroy(s, csrf, message_id) ==
  LET u == g_user(s) IN
  IF ~login_required(s) THEN Unauthorized("messages_destroy", message_id)
  ELSE IF ~csrf
  THEN Reply("messages_destroy", message_id, IF u = None THEN "ServerError" ELSE "skip")
  ELSE IF message_id \notin DOMAIN messages THEN Reply("messages_destroy", message_id, "NotFound")
  ELSE /\ messages' = Without(messages, {message_id})
       /\ likes' = LikesAfterMessages(likes, {message_id})
       /\ last' = Response("messages_destroy", message_id,
                           IF u = None THEN "ServerError" ELSE "ok", TRUE, <<>>)
       /\ UNCHANGED <<users, follows, user_seq, message_seq, session>>

\* ------------------------------------------------------------------- likes
\* /users/like/<message_id>
like_message(s, csrf, message_id) ==
  LET u == g_user(s) IN
  IF ~login_required(s) THEN Unauthorized("like_message", message_id)
  ELSE IF u = None THEN ServerError("like_message", message_id)
  ELSE IF ~csrf THEN Reply("like_message", message_id, "skip")
  ELSE IF message_id \notin DOMAIN messages THEN Reply("like_message", message_id, "NotFound")
  ELSE /\ likes' = relationship_append(likes, <<u, message_id>>)
       /\ last' = Response("like_message", message_id, "ok", likes' # likes, <<>>)
       /\ UNCHANGED <<users, messages, follows, user_seq, message_seq, session>>

\* /users/unlike/<message_id>
unlike_message(s, csrf, message_id) ==
  LET u == g_user(s) IN
  IF ~login_required(s) THEN Unauthorized("unlike_message", message_id)
  ELSE IF u = None THEN ServerError("unlike_message", message_id)
  ELSE IF ~csrf THEN Reply("unlike_message", message_id, "skip")
  ELSE IF message_id \notin DOMAIN messages THEN Reply("unlike_message", message_id, "NotFound")
  ELSE IF ~relationship_holds(likes, <<u, message_id>>)
  THEN \* ValueError raised by remove, caught nowhere
       ServerError("unlike_message", message_id)
  ELSE /\ likes' = likes \ {<<u, message_id>>}
       /\ last' = Response("unlike_message", message_id, "ok", TRUE, <<>>)
       /\ UNCHANGED <<users, messages, follows, user_seq, message_seq, session>>

\* ------------------------------------------- follow and like, step by step
\* add_follow and like_message as the database sees them: the request reads
\* g.user and the target row (get_or_404), then append reads the collection
\* of g.user, then commit writes.  Requests of other sessions may run between
\* these steps.
InFlight(r) == r.pc \in {"begun", "loaded"}

\* the table a request of kind op appends to
EdgeTable(op) == IF op = "add_follow" THEN follows ELSE likes

\* the ids a request of kind op may name
EdgeTargets(op) == IF op = "add_follow" THEN DOMAIN users ELSE DOMAIN messages

\* requests r and q ask for the same edge
SameEdge(r, q) == r.op = q.op /\ r.arg = q.arg /\ r.user = q.user

\* before_request, login_required, the CSRF check and get_or_404
edge_begin(op, s, csrf, id) ==
  LET u == g_user(s)
      r == [ pc |-> "begun", op |-> op, arg |-> id, user |-> u,
             held |-> FALSE, overlap |-> FALSE, resp |-> "none" ]
      met == { t \in Sessions \ {s} : InFlight(pending[t]) /\ SameEdge(pending[t], r) }
  IN
  /\ ~InFlight(pending[s])
  /\ IF ~login_required(s) THEN Unauthorized(op, id) /\ UNCHANGED pending
     ELSE IF ~csrf THEN Reply(op, id, "skip") /\ UNCHANGED pending
     ELSE IF id \notin EdgeTargets(op) THEN Reply(op, id, "NotFound") /\ UNCHANGED pending
     ELSE /\ pending' = [ t \in Sessions |->
                            IF t = s THEN [r EXCEPT !.overlap = met # {}]
                            ELSE IF t \in met THEN [pending[t] EXCEPT !.overlap = TRUE]
                            ELSE pending[t] ]
          /\ UNCHANGED <<db, session, last>>

\* collection.append(x): loads the collection of g.user as it is stored now
edge_append(s) ==
  /\ pending[s].pc = "begun"
  /\ pending' = [pending EXCEPT ![s].pc = "loaded",
                                ![s].held = <<pending[s].user, pending[s].arg>>
                                              \in EdgeTable(pending[s].op)]
  /\ UNCHANGED <<db, session, last>>

\* db.session.commit(): an INSERT for a member the loaded collection did
\* not hold; the table takes no second row for a pair and no row that
\* refers to a missing user or message.  No handler catches the
\* IntegrityError of a refused INSERT
edge_commit(s) ==
  LET r == pending[s]
      edge == <<r.user, r.arg>>
      broken == \/ edge \in EdgeTable(r.op)
                \/ r.user \notin DOMAIN users
                \/ r.arg \notin EdgeTargets(r.op)
      resp == IF ~r.held /\ broken THEN "ServerError" ELSE "ok"
      wrote == ~r.held /\ ~broken
  IN
  /\ r.pc = "loaded"
  /\ follows' = IF wrote /\ r.op = "add_follow" THEN follows \union {edge} ELSE follows
  /\ likes' = IF wrote /\ r.op = "like_message" THEN likes \union {edge} ELSE likes
  /\ pending' = [pending EXCEPT ![s].pc = "done", ![s].resp = resp]
  /\ last' = Response(r.op, r.arg, resp, wrote, <<>>)
  /\ UNCHANGED <<users, messages, user_seq, message_seq, session>>

\* ------------------------------------------------------------------- views
\* /users
list_users == Reply("list_users", None, "page")

\* /users/<user_id>
users_show(user_id) ==
  IF user_id \notin DOMAIN users
  THEN Reply("users_show", user_id, "NotFound")
  ELSE Reply("users_show", user_id, "page")

user_page_owner_only(op, s, user_id) ==
  IF g_user(s) # user_id THEN Unauthorized(op, user_id)
  ELSE Reply(op, user_id, "page")

\* a login_required page about user user_id
user_page(op, s, user_id) ==
  LET u == g_user(s) IN
  IF ~login_required(s) THEN Unauthorized(op, user_id)
  ELSE IF user_id \notin DOMAIN users THEN Reply(op, user_id, "NotFound")
  ELSE Reply(op, user_id, "page")

\* /users/<user_id>/following
show_following(s, user_id) == user_page("show_following", s, user_id)

\* /users/<user_id>/followers
users_followers(s, user_id) == user_page("users_followers", s, user_id)

\* /users/<user_id>/likes
users_likes(s, user_id) == user_page("users_likes", s, user_id)

\* ---------------------------------------------------------------- homepage
\* [user.id for user in g.user.following] + [g.user.id]
following_ids(u) == { e[2] : e \in { x \in follows : x[1] = u } } \union {u}

\* .filter(Message.user_id.in_(following_ids))
Eligible(u) == { m \in DOMAIN messages : messages[m].user_id \in following_ids(u) }

order_by_asc(a, b, tie) ==
  \/ messages[a].timestamp < messages[b].timestamp
  \/ messages[a].timestamp = messages[b].timestamp /\ tie[a] < tie[b]

\* .order_by(Message.timestamp.desc()): row a comes before row b.  The query
\* names no second key, so rows of equal timestamp come in whatever order the
\* store produces them: tie ranks the rows for that case
order_by(a, b, tie) ==
  \/ messages[a].timestamp > messages[b].timestamp
  \/ messages[a].timestamp = messages[b].timestamp /\ tie[a] < tie[b]

\* a row with about as many of the rows below its id as above it
Middle(rows) ==
  CHOOSE p \in rows :
    LET below == Cardinality({ x \in rows : x < p }) IN
    2 * below <= Cardinality(rows) /\ 2 * below + 2 > Cardinality(rows)

\* the rows in the order order_by puts them
RECURSIVE Ordered(_, _)
Split(rows, tie, p) ==
  Ordered({ x \in rows : order_by(x, p, tie) }, tie)
    \o <<p>>
    \o Ordered({ x \in rows : x # p /\ ~order_by(x, p, tie) }, tie)

Ordered(rows, tie) == IF rows = {} THEN <<>> ELSE Split(rows, tie, Middle(rows))

limit_none(rows, n) == rows

\* .limit(n)
limit(rows, n) == SubSeq(rows, 1, IF Len(rows) < n THEN Len(rows) ELSE n)

\* the query of the home page
HomeFeed(u, tie) == limit(Ordered(Eligible(u), tie), TimelineLimit)

\* /
homepage(s, tie) ==
  LET u == g_user(s) IN
  IF u # None
  THEN /\ last' = Response("homepage", u, "home", FALSE, HomeFeed(u, tie))
       /\ UNCHANGED <<db, session>>
  ELSE Reply("homepage", None, "home-anon")

\* ------------------------------------------------------------------ inputs
Usernames == {"ann", "bob"}
Emails == {"a@x", "b@x"}
Passwords == {"pw1", "pw2"}
Texts == {0, MaxTextLen, MaxTextLen + 1}

\* one signup form per person
PlainForms ==
  { [username |-> "ann", email |-> "a@x", password |-> "pw1", image_url |-> ""],
    [username |-> "bob", email |-> "b@x", password |-> "pw1", image_url |-> ""] }

\* the stored row of a person who signed up with form f
PlainRow(f) == User_signup(f.username, f.email, f.password, DEFAULT_IMAGE)

\* text lengths on both sides of both ends of what a message may hold
EdgeTexts == {0, 1, MaxTextLen, MaxTextLen + 1}

SignupForms ==
  { [username |-> n, email |-> e, password |-> p, image_url |-> i] :
      n \in Usernames, e \in Emails, p \in Passwords, i \in {"", "pic"} }

EditForms ==
  { [username |-> n, email |-> e, image_url |-> x, header_image_url |-> x,
     bio |-> x, location |-> x, password |-> p] :
      n \in Usernames, e \in Emails, x \in {"", "new"}, p \in Passwords }

\* the edit forms that resubmit what a person signed up with
KeepForms ==
  { [username |-> f.username, email |-> f.email, image_url |-> "", header_image_url |-> "",
     bio |-> "", location |-> "", password |-> p] : f \in PlainForms, p \in Passwords }

\* every ranking of the stored messages: every order the store may give to
\* rows of equal timestamp
Rankings == { t \in [DOMAIN messages -> DOMAIN messages] :
                \A a, b \in DOMAIN messages : a # b => t[a] # t[b] }

\* three of the rankings, for tables too large to try them all: by id, by
\* id backwards, and scattered
SomeRankings ==
  { [m \in DOMAIN messages |-> m],
    [m \in DOMAIN messages |-> 0 - m],
    [m \in DOMAIN messages |-> (m * 37) % 103] }

\* ------------------------------------------------------------------- steps
Signup(F) ==
  \E s \in Sessions, b \in BOOLEAN, f \in F :
    signup(s, b, f) /\ UNCHANGED pending
Login ==
  \E s \in Sessions, b \in BOOLEAN, n \in Usernames, p \in Passwords :
    login(s, b, n, p) /\ UNCHANGED pending
Logout ==
  \E s \in Sessions, b \in BOOLEAN :
    logout(s, b) /\ UNCHANGED pending
Profile(F) ==
  \E s \in Sessions, b \in BOOLEAN, f \in F :
    profile(s, b, f) /\ UNCHANGED pending
DeleteUser ==
  \E s \in Sessions, b \in BOOLEAN :
    delete_user(s, b) /\ UNCHANGED pending
AddFollow ==
  \E s \in Sessions, b \in BOOLEAN, id \in UserIds :
    add_follow(s, b, id) /\ UNCHANGED pending
StopFollowing ==
  \E s \in Sessions, b \in BOOLEAN, id \in UserIds :
    stop_following(s, b, id) /\ UNCHANGED pending
MessagesAdd ==
  \E s \in Sessions, b \in BOOLEAN, x \in Texts, t \in Timestamps :
    messages_add(s, b, x, t) /\ UNCHANGED pending
MessagesShow ==
  \E id \in MessageIds :
    messages_show(id) /\ UNCHANGED pending
MessagesDestroy ==
  \E s \in Sessions, b \in BOOLEAN, id \in MessageIds :
    messages_destroy(s, b, id) /\ UNCHANGED pending
LikeMessage ==
  \E s \in Sessions, b \in BOOLEAN, id \in MessageIds :
    like_message(s, b, id) /\ UNCHANGED pending
UnlikeMessage ==
  \E s \in Sessions, b \in BOOLEAN, id \in MessageIds :
    unlike_message(s, b, id) /\ UNCHANGED pending
ListUsers == list_users /\ UNCHANGED pending
UsersShow ==
  \E id \in UserIds :
    users_show(id) /\ UNCHANGED pending
ShowFollowing ==
  \E s \in Sessions, id \in UserIds :
    show_following(s, id) /\ UNCHANGED pending
UsersFollowers ==
  \E s \in Sessions, id \in UserIds :
    users_followers(s, id) /\ UNCHANGED pending
UsersLikes ==
  \E s \in Sessions, id \in UserIds :
    users_likes(s, id) /\ UNCHANGED pending
Homepage(T) ==
  \E s \in Sessions, t \in T :
    homepage(s, t) /\ UNCHANGED pending

DeleteUserFault ==
  \E s \in Sessions, b \in BOOLEAN, x \in Faults, p \in BOOLEAN :
    delete_user_fault(s, b, x, p) /\ UNCHANGED pending

MessagesAddEdge ==
  \E s \in Sessions, b \in BOOLEAN, x \in EdgeTexts, t \in Timestamps :
    messages_add(s, b, x, t) /\ UNCHANGED pending

AddFollowBegin ==
  \E s \in Sessions, b \in BOOLEAN, id \in UserIds : edge_begin("add_follow", s, b, id)
LikeMessageBegin ==
  \E s \in Sessions, b \in BOOLEAN, id \in MessageIds : edge_begin("like_message", s, b, id)
EdgeAppend == \E s \in Sessions : edge_append(s)
EdgeCommit == \E s \in Sessions : edge_commit(s)

\* ------------------------------------------------------------------- specs
NoRequest == Response("none", None, "none", FALSE, <<>>)

\* an empty database and browser sessions that hold no user
Start(n) ==
  /\ users = [x \in {} |-> x]
  /\ messages = [x \in {} |-> x]
  /\ follows = {}
  /\ likes = {}
  /\ user_seq = 0
  /\ message_seq = 0
  /\ session = [s \in 1..n |-> None]
  /\ last = NoRequest
  /\ pending = [s \in 1..n |-> Idle]

Init == Start(1)

\* one browser: people who sign up, edit, post, follow, like and leave
Next ==
  \/ Signup(PlainForms) \/ Login \/ Logout \/ Profile(KeepForms) \/ DeleteUser
  \/ AddFollow \/ StopFollowing
  \/ MessagesAdd \/ MessagesDestroy
  \/ LikeMessage \/ UnlikeMessage
  \/ Homepage(Rankings)

Spec == Init /\ [][Next]_vars

\* one browser: accounts made from any signup form, and profile edits
NextAccounts ==
  \/ Signup(SignupForms) \/ Login \/ Logout \/ Profile(EditForms) \/ DeleteUser

InitAccounts == Start(1)

SpecAccounts == InitAccounts /\ [][NextAccounts]_vars

\* one browser: people who sign up, post, follow, like, leave, and look at
\* the pages of users and messages
NextViews ==
  \/ Signup(PlainForms) \/ Login \/ Logout \/ DeleteUser
  \/ AddFollow \/ StopFollowing
  \/ MessagesAdd \/ MessagesDestroy
  \/ LikeMessage \/ UnlikeMessage
  \/ ListUsers \/ UsersShow \/ MessagesShow
  \/ ShowFollowing \/ UsersFollowers \/ UsersLikes

InitViews == Start(1)

SpecViews == InitViews /\ [][NextViews]_vars

\* two browsers whose follow and like requests run side by side
NextRace ==
  \/ AddFollowBegin \/ LikeMessageBegin
  \/ EdgeAppend \/ EdgeCommit

\* ann and bob have signed up, bob has posted a message, and two browsers
\* are logged in
InitRace ==
  \E v \in [1..2 -> 1..2] :
    /\ users = (1 :> PlainRow(CHOOSE f \in PlainForms : f.username = "ann"))
               @@ (2 :> PlainRow(CHOOSE f \in PlainForms : f.username = "bob"))
    /\ messages = (1 :> [text |-> MaxTextLen, timestamp |-> 0, user_id |-> 2])
    /\ follows = {}
    /\ likes = {}
    /\ user_seq = 2
    /\ message_seq = 1
    /\ session = v
    /\ last = NoRequest
    /\ pending = [s \in 1..2 |-> Idle]

SpecRace == InitRace /\ [][NextRace]_vars

\* one browser: people who sign up, post, follow, like and delete their
\* account, over a database that may fail them
NextFaults ==
  \/ Signup(PlainForms) \/ Login \/ Logout
  \/ MessagesAdd \/ AddFollow \/ LikeMessage
  \/ DeleteUser \/ DeleteUserFault

InitFaults == Start(1)

SpecFaults == InitFaults /\ [][NextFaults]_vars

\* one browser: people who sign up, post, like, look at messages and delete
\* them
NextMessages ==
  \/ Signup(PlainForms) \/ Login \/ Logout
  \/ MessagesAddEdge \/ MessagesShow \/ MessagesDestroy
  \/ LikeMessage

InitMessages == Start(1)

SpecMessages == InitMessages /\ [][NextMessages]_vars

\* two browsers that go on being used after ann, who was logged in on them,
\* has deleted her account, and bob, who may delete his
NextStale ==
  \/ Login \/ DeleteUser \/ Profile(KeepForms)
  \/ MessagesAdd \/ MessagesDestroy
  \/ AddFollow \/ StopFollowing
  \/ LikeMessage \/ UnlikeMessage
  \/ ShowFollowing \/ UsersFollowers \/ UsersLikes
  \/ Homepage(Rankings)

\* ann (id 1) has signed up and deleted her account, bob (id 2) has signed
\* up; each browser holds ann's id, bob's id or none
InitStale ==
  \E v \in [1..2 -> {None, 1, 2}] :
    /\ users = (2 :> PlainRow(CHOOSE f \in PlainForms : f.username = "bob"))
    /\ messages = [x \in {} |-> x]
    /\ follows = {}
    /\ likes = {}
    /\ user_seq = 2
    /\ message_seq = 0
    /\ session = v
    /\ last = NoRequest
    /\ pending = [s \in 1..2 |-> Idle]

SpecStale == InitStale /\ [][NextStale]_vars

\* the home page over message tables around the limit of the query
TableSizes == {0, 3} \union ((TimelineLimit - 1)..(TimelineLimit + Overflow))

OwnerPatterns ==
  { [i \in 1..(TimelineLimit + Overflow) |-> 1],
    [i \in 1..(TimelineLimit + Overflow) |-> 1 + (i % 2)],
    [i \in 1..(TimelineLimit + Overflow) |-> IF i % 3 = 0 THEN 2 ELSE 1],
    [i \in 1..(TimelineLimit + Overflow) |-> IF i = 2 THEN 2 ELSE 1] }

ClockPatterns ==
  { [i \in 1..(TimelineLimit + Overflow) |-> i],
    [i \in 1..(TimelineLimit + Overflow) |-> 0],
    [i \in 1..(TimelineLimit + Overflow) |-> i \div 2],
    [i \in 1..(TimelineLimit + Overflow) |-> (TimelineLimit + Overflow) - i] }

InitTimeline ==
  \E n \in TableSizes, o \in OwnerPatterns, c \in ClockPatterns,
     v \in {None, 1, 2}, fl \in SUBSET {<<1, 2>>} :
    /\ users = (1 :> PlainRow(CHOOSE f \in PlainForms : f.username = "ann"))
               @@ (2 :> PlainRow(CHOOSE f \in PlainForms : f.username = "bob"))
    /\ messages = [i \in 1..n |-> [text |-> MaxTextLen, timestamp |-> c[i], user_id |-> o[i]]]
    /\ follows = fl
    /\ likes = {}
    /\ user_seq = 2
    /\ message_seq = n
    /\ session = [s \in 1..1 |-> v]
    /\ last = NoRequest
    /\ pending = [s \in 1..1 |-> Idle]

NextTimeline == Homepage(SomeRankings)

SpecTimeline == InitTimeline /\ [][NextTimeline]_vars

\* ================================================================== claims
Tables == <<users, messages, follows, likes>>

Shown == { last.feed[i] : i \in DOMAIN last.feed }

\* C1: a logged-in user who does not own message m and asks to delete it is
\* turned away as unauthorized, and m and the likes on it stay
C1_OnlyOwnerDeletes ==
  [][\A s \in Sessions, m \in DOMAIN messages :
       ( /\ g_user(s) # None
         /\ messages[m].user_id # g_user(s)
         /\ messages_destroy(s, TRUE, m) )
       => ( /\ last'.resp = "Unauthorized"
            /\ m \in DOMAIN messages'
            /\ likes' = likes )]_vars

\* a request of session s to one of the handlers that change the store
MutatingRequest(s) ==
  \E b \in BOOLEAN :
    \/ \E x \in Texts, t \in Timestamps : messages_add(s, b, x, t)
    \/ \E id \in MessageIds : messages_destroy(s, b, id)
    \/ \E id \in UserIds : add_follow(s, b, id)
    \/ \E id \in UserIds : stop_following(s, b, id)
    \/ \E id \in MessageIds : like_message(s, b, id)
    \/ \E id \in MessageIds : unlike_message(s, b, id)
    \/ \E f \in KeepForms : profile(s, b, f)
    \/ delete_user(s, b)

\* C2: with no acting user, every request to post, delete a message, follow,
\* unfollow, like, unlike, edit the profile or delete the account is answered
\* "unauthorized" and changes no user, message, follow or like
C2_UnauthenticatedDenied ==
  [][\A s \in Sessions :
       (g_user(s) = None /\ MutatingRequest(s))
       => (last'.resp = "Unauthorized" /\ UNCHANGED Tables)]_vars

C2_Witness ==
  /\ last.op = "messages_destroy"
  /\ last.resp = "Unauthorized"
  /\ last.arg \in DOMAIN messages
  /\ likes # {}

\* C3: once a user's account is deleted, no message is owned by that user, no
\* follow has that user on either side, no like is by that user, and no like
\* is on a message that is gone (the user's messages are)
C3_NothingLeftOfDeletedUser ==
  \A u \in 1..user_seq :
    u \notin DOMAIN users =>
      /\ \A m \in DOMAIN messages : messages[m].user_id # u
      /\ \A e \in follows : e[1] # u /\ e[2] # u
      /\ \A e \in likes : e[1] # u /\ e[2] \in DOMAIN messages

C3_Witness ==
  /\ last.op = "delete_user"
  /\ last.resp = "ok"
  /\ DOMAIN users # {}
  /\ message_seq > 0
  /\ DOMAIN messages = {}

\* C4: the home page shows at most 100 messages, each by the viewer or by
\* someone the viewer follows, and no message it could have shown but did not
\* is newer than one it shows; without a viewer it shows none
C4_HomeTimeline ==
  last.op = "homepage" =>
    IF last.arg = None THEN last.feed = <<>>
    ELSE
      /\ Len(last.feed) <= 100
      /\ \A m \in Shown :
           /\ m \in DOMAIN messages
           /\ \/ messages[m].user_id = last.arg
              \/ <<last.arg, messages[m].user_id>> \in follows
      /\ \A m \in DOMAIN messages :
           ( /\ m \notin Shown
             /\ \/ messages[m].user_id = last.arg
                \/ <<last.arg, messages[m].user_id>> \in follows )
           => \A x \in Shown : messages[m].timestamp <= messages[x].timestamp

C4_Witness ==
  /\ last.op = "homepage"
  /\ Len(last.feed) = 100
  /\ \E m \in DOMAIN messages : m \notin Shown /\ messages[m].user_id = last.arg
  /\ \E m \in DOMAIN messages :
       messages[m].user_id # last.arg /\ <<last.arg, messages[m].user_id>> \notin follows

\* C5 as claimed: of two neighbours on the home page the first is newer, or
\* as old and of higher id
C5_TiesByDescendingId ==
  last.op = "homepage" =>
    \A i \in 1..(Len(last.feed) - 1) :
      \/ messages[last.feed[i]].timestamp > messages[last.feed[i + 1]].timestamp
      \/ /\ messages[last.feed[i]].timestamp = messages[last.feed[i + 1]].timestamp
         /\ last.feed[i] > last.feed[i + 1]

\* C5: of two neighbours on the home page the first is at least as new as
\* the second; messages of one timestamp come in no particular order
C5_DescendingByTimestamp ==
  last.op = "homepage" =>
    \A i \in 1..(Len(last.feed) - 1) :
      messages[last.feed[i]].timestamp >= messages[last.feed[i + 1]].timestamp

C5_Witness ==
  /\ last.op = "homepage"
  /\ \E i \in 1..(Len(last.feed) - 1) :
       /\ messages[last.feed[i]].timestamp = messages[last.feed[i + 1]].timestamp
       /\ last.feed[i] < last.feed[i + 1]
  /\ \E i \in 1..(Len(last.feed) - 1) :
       messages[last.feed[i]].timestamp > messages[last.feed[i + 1]].timestamp

\* a follow or like request of session s for an edge the store already holds
DuplicateEdgeRequest(s) ==
  \/ \E id \in UserIds : <<g_user(s), id>> \in follows /\ add_follow(s, TRUE, id)
  \/ \E id \in MessageIds : <<g_user(s), id>> \in likes /\ like_message(s, TRUE, id)

\* C6 as claimed: following someone already followed, or liking a message
\* already liked, fails with ConstraintViolation and leaves the edges as they
\* were
C6_DuplicateEdgeFails ==
  [][\A s \in Sessions :
       (g_user(s) # None /\ DuplicateEdgeRequest(s))
       => (last'.resp = "ConstraintViolation" /\ follows' = follows /\ likes' = likes)]_vars

\* C6: following someone already followed, or liking a message already liked,
\* succeeds without writing anything: the edges stay as they were, the pair's
\* edge among them
C6_DuplicateEdgeIsNoOp ==
  [][\A s \in Sessions :
       (g_user(s) # None /\ DuplicateEdgeRequest(s))
       => (last'.resp = "ok" /\ ~last'.wrote /\ UNCHANGED Tables)]_vars

C6_Witness ==
  /\ last.op = "like_message"
  /\ last.resp = "ok"
  /\ ~last.wrote
  /\ \E e \in likes : e[2] = last.arg
  /\ follows # {}

\* an unfollow or unlike request of session s for an edge the store does not
\* hold
MissingEdgeRequest(s) ==
  \/ \E id \in DOMAIN users :
       <<g_user(s), id>> \notin follows /\ stop_following(s, TRUE, id)
  \/ \E id \in DOMAIN messages :
       <<g_user(s), id>> \notin likes /\ unlike_message(s, TRUE, id)

\* C7: unfollowing someone not followed, or unliking a message not liked,
\* ends without an error and changes nothing
C7_MissingEdgeIsNoOp ==
  [][\A s \in Sessions :
       (g_user(s) # None /\ MissingEdgeRequest(s))
       => (last'.resp = "ok" /\ UNCHANGED Tables)]_vars

\* the username or the email of form f is that of a stored user
Taken(f) ==
  \E u \in DOMAIN users : users[u].username = f.username \/ users[u].email = f.email

\* C8: a signup whose username or email is taken is answered
\* ConstraintViolation, adds no user, and leaves every session as it was
C8_SignupConflict ==
  [][last'.op = "signup" =>
       \A s \in Sessions, f \in SignupForms :
         (Taken(f) /\ signup(s, TRUE, f))
         => (last'.resp = "ConstraintViolation" /\ users' = users /\ session' = session)]_vars

C8_Witness ==
  /\ last.op = "signup"
  /\ last.resp = "ConstraintViolation"
  /\ \E s \in Sessions : g_user(s) # None

\* form f, confirmed with the right password, would give the user of session
\* s a username or an email that another user has
EditCollides(s, f) ==
  /\ g_user(s) # None
  /\ check_password_hash(users[g_user(s)].password, f.password)
  /\ \E u \in DOMAIN users \ {g_user(s)} :
       users[u].username = f.username \/ users[u].email = f.email

\* C9: no two users ever share a username or an email, and a profile edit
\* that would make them do so is answered ConstraintViolation, not a crash,
\* and changes no profile
C9_UniqueAndRecoverable ==
  /\ []UsersUnique(users)
  /\ [][last'.op = "profile" =>
          \A s \in Sessions, f \in EditForms :
            (EditCollides(s, f) /\ profile(s, TRUE, f))
            => (last'.resp = "ConstraintViolation" /\ users' = users)]_vars

\* C10: a profile edit changes the profile only if its password is the acting
\* user's; a wrong one is answered AuthFailure and changes no user; the
\* password hash is never changed
C10_EditNeedsPassword ==
  [][last'.op = "profile" =>
       \A s \in Sessions, f \in EditForms :
         (g_user(s) # None /\ profile(s, TRUE, f))
         => /\ ~check_password_hash(users[g_user(s)].password, f.password)
                 => (last'.resp = "AuthFailure" /\ users' = users)
            /\ users' # users
                 => check_password_hash(users[g_user(s)].password, f.password)
            /\ g_user(s) \in DOMAIN users'
            /\ users'[g_user(s)].password = users[g_user(s)].password]_vars

C10_Witness ==
  /\ last.op = "profile"
  /\ last.resp = "AuthFailure"
  /\ \E u \in DOMAIN users : users[u].bio # Null

\* the users named username whose stored hash is that of password
Holders(username, password) ==
  { u \in DOMAIN users :
      users[u].username = username /\ users[u].password = Hash(password) }

\* C11: the stored hash of a user is that of the password given at signup and
\* never changes; a login is let in as user u exactly when u has the username
\* and that password; a wrong password and an unknown username get one and the
\* same answer and change nothing
C11_Authenticate ==
  /\ [][\A u \in DOMAIN users \cap DOMAIN users' :
          users'[u].password = users[u].password]_vars
  /\ [][last'.op = "signup" =>
          \A s \in Sessions, f \in SignupForms :
            (signup(s, TRUE, f) /\ last'.resp = "ok")
            => users'[last'.arg].password = Hash(f.password)]_vars
  /\ [][last'.op = "login" =>
          \A s \in Sessions, n \in Usernames, p \in Passwords :
            login(s, TRUE, n, p)
            => IF Holders(n, p) # {}
               THEN /\ last'.resp = "ok"
                    /\ last'.arg \in Holders(n, p)
                    /\ session'[s] = last'.arg
               ELSE /\ last' = Response("login", None, "AuthFailure", FALSE, <<>>)
                    /\ UNCHANGED <<db, session>>]_vars

C11_Witness ==
  /\ last.op = "login"
  /\ last.resp = "AuthFailure"
  /\ Cardinality(DOMAIN users) = 2
  /\ \E a, b \in DOMAIN users : users[a].password # users[b].password

\* C12: once user a has followed another user b, a is following b, b is
\* followed by a, b is among those a follows and a among b's followers; once a
\* then unfollows b, none of the four holds
C12_FollowThenUnfollow ==
  [][\A s \in Sessions, b \in DOMAIN users :
       (g_user(s) # None /\ g_user(s) # b)
       => /\ add_follow(s, TRUE, b)
               => /\ is_following(follows', g_user(s), b)
                  /\ is_followed_by(follows', b, g_user(s))
                  /\ b \in following(follows', g_user(s))
                  /\ g_user(s) \in followers(follows', b)
          /\ (is_following(follows, g_user(s), b) /\ stop_following(s, TRUE, b))
               => /\ ~is_following(follows', g_user(s), b)
                  /\ ~is_followed_by(follows', b, g_user(s))
                  /\ b \notin following(follows', g_user(s))
                  /\ g_user(s) \notin followers(follows', b)]_vars

C12_Witness ==
  /\ last.op = "stop_following"
  /\ last.resp = "ok"
  /\ \E s \in Sessions :
       /\ g_user(s) # None
       /\ g_user(s) # last.arg
       /\ last.arg \in DOMAIN users
       /\ ~is_following(follows, g_user(s), last.arg)
       /\ is_following(follows, last.arg, g_user(s))

\* a like on message m by someone who does not own m
LikedByOther(m) == \E e \in likes : e[2] = m /\ e[1] # messages[m].user_id

\* C13: every like is on a stored message, in every state; when a logged-in
\* user deletes a message that others have liked, or its owner deletes the
\* account, the message and every like on it are gone
C13_LikesReferToMessages ==
  /\ [](\A e \in likes : e[2] \in DOMAIN messages)
  /\ [][\A s \in Sessions, m \in DOMAIN messages :
          ( /\ LikedByOther(m)
            /\ g_user(s) # None
            /\ \/ messages_destroy(s, TRUE, m)
               \/ g_user(s) = messages[m].user_id /\ delete_user(s, TRUE) )
          => ( /\ m \notin DOMAIN messages'
               /\ \A e \in likes' : e[2] # m )]_vars

C13_Witness ==
  /\ last.op = "messages_destroy"
  /\ last.resp = "ok"
  /\ DOMAIN messages = {}
  /\ Cardinality(DOMAIN users) = 2
  /\ \E s \in Sessions : g_user(s) = 1

\* the page of session s about the followers, the following or the likes of
\* user id
ListRequest(s, id) ==
  \/ show_following(s, id)
  \/ users_followers(s, id)
  \/ users_likes(s, id)

\* C14: the followers, following and likes pages of any stored user are shown
\* to every logged-in user, the user's own or not, and are refused as
\* unauthorized to a session with no user
C14_ListsNeedLoginOnly ==
  [][\A s \in Sessions, id \in DOMAIN users :
       ListRequest(s, id)
       => /\ last'.resp = (IF g_user(s) # None THEN "page" ELSE "Unauthorized")
          /\ UNCHANGED <<db, session>>]_vars

C14_Witness ==
  /\ last.op = "users_likes"
  /\ last.resp = "page"
  /\ \E s \in Sessions : g_user(s) # None /\ g_user(s) # last.arg
  /\ \E e \in likes : e[1] = last.arg

\* a request of session s that looks up the user of id id
UserLookup(s, id) ==
  \/ users_show(id)
  \/ add_follow(s, TRUE, id)
  \/ stop_following(s, TRUE, id)
  \/ ListRequest(s, id)

\* a request of session s that looks up the message of id id
MessageLookup(s, id) ==
  \/ messages_show(id)
  \/ messages_destroy(s, TRUE, id)
  \/ like_message(s, TRUE, id)
  \/ unlike_message(s, TRUE, id)

\* C15: a logged-in user's request that looks up a user or a message by an
\* id that is not stored is answered NotFound and changes nothing
C15_UnknownIdIsNotFound ==
  [][\A s \in Sessions :
       g_user(s) # None
       => /\ \A id \in UserIds \ DOMAIN users :
               UserLookup(s, id) => (last'.resp = "NotFound" /\ UNCHANGED <<db, session>>)
          /\ \A id \in MessageIds \ DOMAIN messages :
               MessageLookup(s, id) => (last'.resp = "NotFound" /\ UNCHANGED <<db, session>>)]_vars

\* two requests for one edge that were under way at the same time are both
\* answered
Raced(s, t) ==
  /\ s # t
  /\ pending[s].pc = "done" /\ pending[t].pc = "done"
  /\ SameEdge(pending[s], pending[t])
  /\ pending[s].overlap /\ pending[t].overlap

\* C16: of two requests that ask for the same follow or like at the same
\* time, one is answered ok and the other ConstraintViolation, and the table
\* holds the edge once
C16_OneWinsOtherConstraintViolation ==
  \A s, t \in Sessions :
    Raced(s, t)
    => /\ {pending[s].resp, pending[t].resp} = {"ok", "ConstraintViolation"}
       /\ <<pending[s].user, pending[s].arg>> \in EdgeTable(pending[s].op)

\* C17: when a statement of the account deletion fails, the users, messages,
\* follows and likes are as before the request, and so is the session
C17_DeleteAllOrNothing ==
  [][\A s \in Sessions, x \in Faults, p \in BOOLEAN :
       (g_user(s) # None /\ delete_user_fault(s, TRUE, x, p))
       => UNCHANGED <<db, session>>]_vars

\* the step in which the acting user of session s becomes u is a login with
\* u's name and password or the signup of u
BecomesBy(s, u) ==
  \/ /\ last'.op = "login" /\ last'.resp = "ok" /\ last'.arg = u
     /\ \E n \in Usernames, p \in Passwords : u \in Holders(n, p) /\ login(s, TRUE, n, p)
  \/ /\ last'.op = "signup" /\ last'.resp = "ok" /\ last'.arg = u
     /\ u \notin DOMAIN users
     /\ \E f \in SignupForms : signup(s, TRUE, f)

\* C18: the acting user of a session becomes u only by a login that
\* authenticates as u or by the signup of u; a login with credentials that
\* match no user leaves every session as it was; after a logout the session
\* has no acting user
C18_SessionIdentity ==
  [][/\ \A s \in Sessions, u \in UserIds :
          (g_user(s)' = u /\ g_user(s) # u) => BecomesBy(s, u)
     /\ last'.op = "login" =>
          \A s \in Sessions, n \in Usernames, p \in Passwords :
            (Holders(n, p) = {} /\ login(s, TRUE, n, p)) => session' = session
     /\ last'.op = "logout" =>
          \A s \in Sessions :
            logout(s, TRUE) => (session'[s] = None /\ g_user(s)' = None)]_vars

C18_Witness ==
  /\ last.op = "logout"
  /\ last.resp = "ok"
  /\ \A s \in Sessions : g_user(s) = None
  /\ Cardinality(DOMAIN users) = 2

\* C19: a logged-in user's post of 1 to 140 characters adds one message, of
\* that user and that text, and nothing else; a post of no text or of more
\* than 140 characters adds none; when the owner deletes the message, one
\* message less is stored and it is not that one; a message that is not
\* stored is shown as NotFound, and a deleted id is never stored again
C19_PostThenDelete ==
  /\ [](DOMAIN messages \subseteq 1..message_seq)
  /\ [][message_seq' >= message_seq]_vars
  /\ [][last'.op = "messages_add" =>
          \A s \in Sessions, x \in EdgeTexts, t \in Timestamps :
            (g_user(s) # None /\ messages_add(s, TRUE, x, t))
            => IF x >= 1 /\ x <= 140
               THEN /\ last'.resp = "ok"
                    /\ last'.arg \notin DOMAIN messages
                    /\ DOMAIN messages' = DOMAIN messages \union {last'.arg}
                    /\ \A m \in DOMAIN messages : messages'[m] = messages[m]
                    /\ messages'[last'.arg].user_id = g_user(s)
                    /\ messages'[last'.arg].text = x
               ELSE last'.resp # "ok" /\ messages' = messages]_vars
  /\ [][last'.op = "messages_destroy" =>
          \A s \in Sessions, m \in DOMAIN messages :
            (g_user(s) = messages[m].user_id /\ messages_destroy(s, TRUE, m))
            => /\ DOMAIN messages' = DOMAIN messages \ {m}
               /\ Cardinality(DOMAIN messages') = Cardinality(DOMAIN messages) - 1]_vars
  /\ [][last'.op = "messages_show" =>
          \A m \in MessageIds :
            messages_show(m) => (last'.resp = "NotFound" <=> m \notin DOMAIN messages)]_vars

C19_Witness ==
  /\ last.op = "messages_show"
  /\ last.resp = "NotFound"
  /\ last.arg <= message_seq
  /\ DOMAIN messages = {}
  /\ \E s \in Sessions : g_user(s) # None

\* session s holds the id of a user that is not stored
Stale(s) == session[s] # None /\ session[s] \notin DOMAIN users

\* C20: a session that holds the id of a user who is gone is treated as one
\* that holds none: its requests to post, delete a message, follow, unfollow,
\* like, unlike, edit the profile, delete the account or see a followers,
\* following or likes page are answered "unauthorized" and change nothing,
\* and its home page is the anonymous one
C20_StaleSessionIsAnonymous ==
  [][\A s \in Sessions :
       Stale(s)
       => /\ (MutatingRequest(s) \/ \E id \in UserIds : ListRequest(s, id))
               => (last'.resp = "Unauthorized" /\ UNCHANGED <<db, session>>)
          /\ (\E t \in Rankings : homepage(s, t))
               => (last'.resp = "home-anon" /\ last'.feed = <<>> /\ UNCHANGED <<db, session>>)]_vars

C20_Witness ==
  /\ last.resp = "Unauthorized"
  /\ last.op = "messages_destroy"
  /\ last.arg \in DOMAIN messages
  /\ \A s \in Sessions : session[s] # None
  /\ \E s \in Sessions : Stale(s)
  /\ \E s \in Sessions : g_user(s) # None

\* the request of session s deletes the account of its user or a message of
\* its user
DeletesOwn(s) ==
  \/ delete_user(s, TRUE)
  \/ \E m \in DOMAIN messages :
       messages[m].user_id = g_user(s) /\ messages_destroy(s, TRUE, m)

\* C21: whatever a logged-in user a does, every other user follows the same
\* users and likes the same messages afterwards as before, unless a deletes
\* a's own account or one of a's own messages
C21_OthersEdgesUntouched ==
  [][\A s \in Sessions :
       (g_user(s) # None /\ MutatingRequest(s) /\ ~DeletesOwn(s))
       => \A b \in DOMAIN users \ {g_user(s)} :
            /\ following(follows', b) = following(follows, b)
            /\ liked_messages(likes', b) = liked_messages(likes, b)]_vars

====
